---- MODULE Spec2Model ----
(***************************************************************************)
(* Monte-Carlo wave-function solver of qutip (src/qutip/mcsolve.py):       *)
(* the ensemble orchestrator (_MC_class, mcsolve) and the trajectory       *)
(* engine (_mc_alg_evolve).                                                *)
(*                                                                         *)
(* Numerical abstraction.  Time is counted in integer ticks.  A state      *)
(* vector y is the record [ch, t0, att]: ch is the collapse operator that  *)
(* produced it (NoCh for psi0), t0 the time at which it had unit norm and  *)
(* att its attenuation, att = -log(|y|^2) in integer levels, so that       *)
(* |y|^2 <= r1 reads att >= R1 with R1 = -log(r1), and the log-linear      *)
(* interpolation of the jump search is a linear one on att.  Because the   *)
(* effective generator is H - (i/2) sum C^dag C, the attenuation grows per *)
(* tick by the sum of the decay weights <y|C_i^dag C_i|y> of all channels. *)
(***************************************************************************)
EXTENDS Integers, Sequences, FiniteSets, TLC

\* ------------------------------------------------------------ bounds
MaxTraj == 2
NumTimes == 3
MaxNormSteps == 2

\* ------------------------------------------------ the simulated system
\* spacing of the output times tlist[k], in ticks
OutputStep == 4
\* length of one internal step of the adaptive integrator (step=1), in ticks
StepLen == 3
\* options.norm_tol in attenuation levels: converged iff |att - R1| < NormTol
NormTol == 2
\* r2 is drawn as R2Draw / R2Den
R2Den == 4
\* ch of the initial state psi0
NoCh == -1
\* a reference that is not set
Null == -1
\* a slot of an object array: empty, or holding a reference to the object o
NoRef == <<>>
Ref(o) == <<o>>

tlist(k) == k * OutputStep

\* attenuation thresholds R1 = -log(r1) the generator can draw
R1Vals == <<11, 5, 7, 99>>

\* RandomState(seed).rand(2), d-th call: first value (as R1) and second value
\* (as a numerator over R2Den)
R1Draw(seed, d) == R1Vals[((seed + d) % Len(R1Vals)) + 1]
R2Draw(seed, d) == ((seed + 2 * d) % (R2Den - 1)) + 1
prng_rand(seed, d) == <<R1Draw(seed, d), R2Draw(seed, d)>>

\* the collapse lists of the runs: c_td[i] says whether c_ops[i] is given as
\* [operator, coefficient function]
CollapseLists ==
    { <<>>,
      [i \in 0..1 |-> FALSE],
      [i \in 0..1 |-> i = 1],
      [i \in 0..1 |-> i = 0] }

\* the output options of the runs
OutputModes ==
    { [e_num |-> 1, average_states |-> FALSE, steady_state_average |-> FALSE,
       average_expect |-> TRUE],
      [e_num |-> 1, average_states |-> FALSE, steady_state_average |-> FALSE,
       average_expect |-> FALSE],
      [e_num |-> 0, average_states |-> FALSE, steady_state_average |-> FALSE,
       average_expect |-> TRUE],
      [e_num |-> 0, average_states |-> TRUE, steady_state_average |-> FALSE,
       average_expect |-> TRUE],
      [e_num |-> 0, average_states |-> FALSE, steady_state_average |-> TRUE,
       average_expect |-> TRUE] }

CpuChoices == {1, 2}

\* the seeds a run may be given (options.seeds, or random_integers)
SeedChoices == {1, 2, 3}

\* the states on which zvode gives up, as the set of channels that produce them
StiffChoices == {{}, {0}}

\* --------------------------------------------------------- sequences
RECURSIVE SumSeq(_)
SumSeq(s) == IF s = <<>> THEN 0 ELSE Head(s) + SumSeq(Tail(s))

RECURSIVE SeqOfSet(_)
\* the elements of a finite set of integers in increasing order
SeqOfSet(S) ==
    IF S = {} THEN <<>>
    ELSE LET m == CHOOSE x \in S : \A z \in S : x <= z
         IN <<m>> \o SeqOfSet(S \ {m})

\* numpy.append(arr, v): returns a NEW array, arr itself is left as it was
np_append(arr, v) == Append(arr, v)

\* ------------------------------------------------ operator configuration
c_num_of(c_td) == Cardinality(DOMAIN c_td)
c_td_inds_of(c_td) == SeqOfSet({i \in DOMAIN c_td : c_td[i]})
\* setdiff1d(C_inds, C_td_inds): sorted
c_const_inds_of(c_td) == SeqOfSet({i \in DOMAIN c_td : ~c_td[i]})
\* time_type of _ode_checks: 0 all constant, 2 constant H with function-type
\* collapse operators
tflag_of(c_td) == IF \E i \in DOMAIN c_td : c_td[i] THEN 2 ELSE 0

\* <psi|C_i^dag C_i|psi> for the normalized state produced by channel ch
Rate(i, ch) == IF ch = i THEN 1 ELSE 2
\* |c_funcs[i](t, args)|^2
Coef2(i, t) == 1 + (t % 2)

\* decay weight of channel i in state y at time t
Weight(cfg, i, y, t) ==
    IF cfg.c_td[i] THEN Coef2(i, t) * Rate(i, y.ch) ELSE Rate(i, y.ch)

RECURSIVE TotalRate(_, _, _, _)
TotalRate(cfg, i, y, t) ==
    IF i >= cfg.c_num THEN 0
    ELSE Weight(cfg, i, y, t) + TotalRate(cfg, i + 1, y, t)

RECURSIVE Decay(_, _, _, _)
\* growth of the attenuation of y under the right-hand side from t0 to t1
\* (negative when the integrator is sent backwards, t1 < t0)
Decay(cfg, y, t0, t1) ==
    IF t0 = t1 THEN 0
    ELSE IF t0 < t1 THEN TotalRate(cfg, 0, y, t0) + Decay(cfg, y, t0 + 1, t1)
    ELSE Decay(cfg, y, t0 - 1, t1) - TotalRate(cfg, 0, y, t0 - 1)

\* ODE.integrate(t1, step=0) from (y, t0)
ode_integrate(cfg, y, t0, t1) == [y EXCEPT !.att = @ + Decay(cfg, y, t0, t1)]
\* ODE.successful(): zvode fails on the states listed by the run's input
ode_successful(cfg, y) == y.ch \notin cfg.stiff
\* dznrm2(y) ** 2, as an attenuation
dznrm2sq(y) == y.att
\* n1 <= n2 for squared norms given as attenuations
NormLE(a1, a2) == a1 >= a2
NormLT(a1, a2) == a1 > a2
Abs(x) == IF x < 0 THEN -x ELSE x
\* np.abs(r1 - norm2_guess) < norm_tol * r1
WithinTol(cfg, r1, a) == Abs(r1 - a) < cfg.norm_tol

\* ceiling of a/b for a >= 0, b > 0
CeilDiv(a, b) == (a + b - 1) \div b

\* a/b rounded to the tick away from zero, b # 0
RoundOut(a, b) ==
    IF b < 0 THEN (IF a <= 0 THEN CeilDiv(-a, -b) ELSE -CeilDiv(a, -b))
    ELSE IF a >= 0 THEN CeilDiv(a, b) ELSE -CeilDiv(-a, b)

\* t_prev + log(norm2_prev / r1) / log(norm2_prev / norm2_psi) * (t_final - t_prev)
t_guess_of(t_prev, norm2_prev, r1, norm2_psi, t_final) ==
    t_prev + RoundOut((r1 - norm2_prev) * (t_final - t_prev), norm2_psi - norm2_prev)

\* the normalized state y / dznrm2(y) sampled at time t, as a code > 0
\* (0 is the entry of a zeros(...) array)
MaxTick == (NumTimes - 1) * OutputStep
psi_code(y, t) == 1 + (y.ch + 1) + 3 * y.t0 + 3 * (MaxTick + 1) * t
\* cy_expect_psi_csr(e_ops[0], psi): the expectation value in the sampled state
cy_expect_psi(y, t) == 10 * (y.ch + 2) + (t - y.t0)

\* psi0.full().ravel() of a ket whose squared norm has attenuation a: mcsolve
\* stores the vector as it is given (a = 0 for a normalized ket)
psi0(a) == [ch |-> NoCh, t0 |-> 0, att |-> a]

\* the attenuations of the initial kets of the runs
PsiAttChoices == {0, 9}

\* Qobj(psi0) / psi0 psi0^dag written as sample 0: the vector as given
psi0_code(y) == IF y.att = 0 THEN psi_code(y, tlist(0)) ELSE -y.att
\* cy_expect_psi_csr(e_ops[0], psi0) for the vector as given
psi0_expect(y) == 100 * y.att + cy_expect_psi(y, tlist(0))

\* ------------------------------------------------- trajectory engine
\* _mc_alg_evolve up to the first pass of the output loop: the generator is
\* seeded with seeds[nt], two numbers are drawn, the integrator starts at psi0
TrajInit(cfg, seed) ==
    [pc |-> "step", st |-> "running", seed |-> seed, k |-> 1,
     t |-> tlist(0), y |-> cfg.psi0,
     t_prev |-> tlist(0), y_prev |-> cfg.psi0, norm2_prev |-> 0,
     t_final |-> tlist(0), norm2_psi |-> 0, ii |-> 0,
     rand_vals |-> prng_rand(seed, 0), ndraw |-> 1,
     collapse_times |-> <<>>, which_oper |-> <<>>,
     jumps |-> <<>>, samples |-> <<>>, err |-> "", buf |-> Null,
     result |-> [ref |-> Null, val |-> <<>>]]

\* a task that has not been started
TaskQueued ==
    [TrajInit([psi0 |-> psi0(0)], 0) EXCEPT !.pc = "idle", !.st = "queued",
                        !.rand_vals = <<0, 0>>, !.ndraw = 0]

\* a task whose process was terminated, or that never ran: its locals are gone
TaskKilled == [TaskQueued EXCEPT !.st = "killed"]

\* raise inside the try block: the except clause prints and the function
\* returns None
Raise(w, msg) == [w EXCEPT !.pc = "done", !.st = "failed", !.err = msg]

\* the call _mc_alg_evolve(nt, args, odeconfig) up to the output loop;
\* seeds[nt] raises IndexError when the seed array has no entry nt
TrajStart(cfg, sds, nt) ==
    IF nt \in DOMAIN sds THEN TrajInit(cfg, sds[nt])
    ELSE Raise(TrajInit(cfg, 0), "IndexError")

\* where the loops continue once the integrator stands at w.t
AfterOde(w) == IF w.t < tlist(w.k) THEN "step" ELSE "sample"

\* a pass of `while ODE.t < tlist[k]` that keeps the step as zvode took it
IntegrateStep_no_rollback(cfg, w) ==
    LET t1 == w.t + StepLen
        y1 == ode_integrate(cfg, w.y, w.t, t1)
        w1 == [w EXCEPT !.t_prev = w.t, !.y_prev = w.y,
                        !.norm2_prev = dznrm2sq(w.y),
                        !.t = t1, !.y = y1, !.norm2_psi = dznrm2sq(y1)]
    IN IF ~ode_successful(cfg, w.y) THEN Raise(w, "ZVODE failed!")
       ELSE IF NormLE(dznrm2sq(y1), w.rand_vals[1])
            THEN [w1 EXCEPT !.pc = "search", !.ii = 0, !.t_final = t1]
            ELSE [w1 EXCEPT !.pc = AfterOde(w1)]

\* one pass of `while ODE.t < tlist[k]` up to the norm test
IntegrateStep(cfg, w) ==
    LET t1 == w.t + StepLen
        y1 == ode_integrate(cfg, w.y, w.t, t1)
        over == t1 > tlist(w.k)
        t2 == IF over THEN tlist(w.k) ELSE t1
        y2 == IF over THEN ode_integrate(cfg, w.y, w.t, tlist(w.k)) ELSE y1
        w1 == [w EXCEPT !.t_prev = w.t, !.y_prev = w.y,
                        !.norm2_prev = dznrm2sq(w.y),
                        !.t = t2, !.y = y2, !.norm2_psi = dznrm2sq(y2)]
    IN IF ~ode_successful(cfg, w.y) THEN Raise(w, "ZVODE failed!")
       ELSE IF NormLE(dznrm2sq(y2), w.rand_vals[1])
            THEN [w1 EXCEPT !.pc = "search", !.ii = 0, !.t_final = t2]
            ELSE [w1 EXCEPT !.pc = AfterOde(w1)]

\* `if ii > odeconfig.norm_steps` after the refinement loop
NormStepsExceeded(ii, norm_steps) == ii > norm_steps

\* the refinement loop is left: tolerance test, then on to the jump
AfterSearch(cfg, w) ==
    IF NormStepsExceeded(w.ii, cfg.norm_steps)
    THEN Raise(w, "Norm tolerance not reached.")
    ELSE [w EXCEPT !.pc = "jump"]

\* a pass of a refinement loop that runs while ii <= norm_steps
RefineStep_one_more(cfg, w) ==
    LET ii == w.ii + 1
        r1 == w.rand_vals[1]
        t_guess == t_guess_of(w.t_prev, w.norm2_prev, r1, w.norm2_psi, w.t_final)
        yg == ode_integrate(cfg, w.y_prev, w.t_prev, t_guess)
        norm2_guess == dznrm2sq(yg)
        w1 == [w EXCEPT !.ii = ii, !.t = t_guess, !.y = yg]
        w2 == IF WithinTol(cfg, r1, norm2_guess) THEN w1
              ELSE IF NormLT(norm2_guess, r1)
                   THEN [w1 EXCEPT !.t_final = t_guess, !.norm2_psi = norm2_guess]
                   ELSE [w1 EXCEPT !.t_prev = t_guess, !.y_prev = yg,
                                   !.norm2_prev = norm2_guess]
    IN IF ~ode_successful(cfg, w.y_prev)
       THEN Raise(w1, "ZVODE failed after adjusting step size!")
       ELSE IF WithinTol(cfg, r1, norm2_guess) \/ ~(ii <= cfg.norm_steps)
            THEN AfterSearch(cfg, w2)
            ELSE w2

\* one pass of `while ii < odeconfig.norm_steps`
RefineStep(cfg, w) ==
    LET ii == w.ii + 1
        r1 == w.rand_vals[1]
        t_guess == t_guess_of(w.t_prev, w.norm2_prev, r1, w.norm2_psi, w.t_final)
        yg == ode_integrate(cfg, w.y_prev, w.t_prev, t_guess)
        norm2_guess == dznrm2sq(yg)
        w1 == [w EXCEPT !.ii = ii, !.t = t_guess, !.y = yg]
        w2 == IF WithinTol(cfg, r1, norm2_guess) THEN w1
              ELSE IF NormLT(norm2_guess, r1)
                   THEN [w1 EXCEPT !.t_final = t_guess, !.norm2_psi = norm2_guess]
                   ELSE [w1 EXCEPT !.t_prev = t_guess, !.y_prev = yg,
                                   !.norm2_prev = norm2_guess]
    IN IF ~ode_successful(cfg, w.y_prev)
       THEN Raise(w1, "ZVODE failed after adjusting step size!")
       ELSE IF WithinTol(cfg, r1, norm2_guess) \/ ~(ii < cfg.norm_steps)
            THEN AfterSearch(cfg, w2)
            ELSE w2

\* the collapse operators in the order in which n_dp lists their weights
n_dp_order(cfg) ==
    IF cfg.tflag = 2 THEN cfg.c_const_inds \o cfg.c_td_inds
    ELSE [p \in 1..cfg.c_num |-> p - 1]

n_dp(cfg, y, t) ==
    LET ord == n_dp_order(cfg)
    IN [p \in 1..Len(ord) |-> Weight(cfg, ord[p], y, t)]

RECURSIVE cumsum(_, _)
\* cumsum(a)[p], p counted from 1
cumsum(a, p) == IF p = 0 THEN 0 ELSE a[p] + cumsum(a, p - 1)

\* cinds[kk >= rand_vals[1]][0] with kk = cumsum(n_dp / sum(n_dp))
which_collapse(cfg, y, t, r2) ==
    LET a == n_dp(cfg, y, t)
        hits == {p \in 1..Len(a) : cumsum(a, p) * R2Den >= r2 * SumSeq(a)}
    IN (CHOOSE p \in hits : \A q \in hits : p <= q) - 1

\* the statement `np.append(arr, v)`: the array it returns is dropped
append_stmt(arr, v) == LET new == np_append(arr, v) IN arr

\* a collapse after which the old pair (r1, r2) is kept
JumpStep_no_redraw(cfg, w) ==
    LET j == which_collapse(cfg, w.y, w.t, w.rand_vals[2])
        state == [ch |-> j, t0 |-> w.t, att |-> 0]
        w1 == [w EXCEPT !.y = state,
                        !.collapse_times = append_stmt(@, w.t),
                        !.which_oper = append_stmt(@, j),
                        !.jumps = Append(@, [t |-> w.t, j |-> j, y |-> w.y,
                                             r1 |-> w.rand_vals[1],
                                             r2 |-> w.rand_vals[2],
                                             post |-> state,
                                             redraw |-> w.rand_vals])]
    IN [w1 EXCEPT !.pc = AfterOde(w1)]

\* the collapse: log, channel, projection, renormalization, new draws
\* (jumps is the history of the collapses performed, kept for the properties)
JumpStep(cfg, w) ==
    LET j == which_collapse(cfg, w.y, w.t, w.rand_vals[2])
        state == [ch |-> j, t0 |-> w.t, att |-> 0]
        w1 == [w EXCEPT !.y = state,
                        !.collapse_times = append_stmt(@, w.t),
                        !.which_oper = append_stmt(@, j),
                        !.rand_vals = prng_rand(w.seed, w.ndraw),
                        !.ndraw = @ + 1,
                        !.jumps = Append(@, [t |-> w.t, j |-> j, y |-> w.y,
                                             r1 |-> w.rand_vals[1],
                                             r2 |-> w.rand_vals[2],
                                             post |-> state,
                                             redraw |-> prng_rand(w.seed, w.ndraw)])]
    IN [w1 EXCEPT !.pc = AfterOde(w1)]

\* the output buffer mc_alg_out that _MC_class.run prepares
InitialBuffer(cfg) ==
    IF cfg.e_num = 0
    THEN IF cfg.steady_state_average
         THEN << <<psi0_code(cfg.psi0)>> >>
         ELSE [k \in 1..NumTimes |-> IF k = 1 THEN psi0_code(cfg.psi0) ELSE 0]
    ELSE [k \in 1..NumTimes |-> IF k = 1 THEN psi0_expect(cfg.psi0) ELSE 0]

\* the write into mc_alg_out after the while loop of output time k
SampleWrite(cfg, buf, w) ==
    IF cfg.e_num = 0
    THEN IF cfg.steady_state_average
         THEN [buf EXCEPT ![1] = Append(@, psi_code(w.y, w.t))]
         ELSE [buf EXCEPT ![w.k + 1] = psi_code(w.y, w.t)]
    ELSE [buf EXCEPT ![w.k + 1] = cy_expect_psi(w.y, w.t)]

\* a pass of `for k in range(1, num_times)` that ends before the last one
SampleStep_early(w) ==
    LET w1 == [w EXCEPT !.k = @ + 1,
                        !.samples = Append(@, [k |-> w.k, t |-> w.t])]
    IN [w1 EXCEPT !.pc = IF w1.k < NumTimes - 1 THEN "step" ELSE "finish"]

\* the end of pass k of `for k in range(1, num_times)`
\* (samples is the history of the samples written, kept for the properties)
SampleStep(w) ==
    LET w1 == [w EXCEPT !.k = @ + 1,
                        !.samples = Append(@, [k |-> w.k, t |-> w.t])]
    IN [w1 EXCEPT !.pc = IF w1.k < NumTimes THEN "step" ELSE "finish"]

\* array([Qobj(mc_alg_out[0] / float(len(tlist)))]): a new array
SteadyResult(buf) == << [num |-> buf[1], den |-> NumTimes] >>

\* -------------------------------------------------------------- state
VARIABLES
    psi0_isket,          \* the argument psi0 of mcsolve is a ket
    odeconfig,           \* the shared configuration, options included
    seeds,               \* _MC_class.seeds
    mc_pc,               \* where mcsolve / _MC_class.run stands
    nt_cur,              \* loop variable of _MC_class.serial
    count,               \* _MC_class.count
    psi_out,             \* _MC_class.psi_out: row r holds values
    expect_out,          \* _MC_class.expect_out: slot r holds a reference
    collapse_times_out,  \* _MC_class.collapse_times_out
    which_op_out,        \* _MC_class.which_op_out
    handler_alive,       \* the pool's result-handler thread is running
    heap,                \* the output buffers, by object: 0 is run's mc_alg_out,
                         \* nt + 1 the copy pickled for task nt
    task,                \* per trajectory: the locals of _mc_alg_evolve
    returned,            \* history: results[1] of trajectory nt when it returned
    arrived,             \* history: the trajectories in the order of their callbacks
    output,              \* the Odedata object of mcsolve
    mc_args,             \* the arguments H and c_ops of mcsolve
    rhs_out              \* the value the right-hand side function returned

vars == <<psi0_isket, odeconfig, seeds, mc_pc, nt_cur, count, psi_out, expect_out,
          collapse_times_out, which_op_out, handler_alive, heap, task,
          returned, arrived, output, mc_args, rhs_out>>

Trajs == 0..(odeconfig.ntraj - 1)
Unset == [set |-> FALSE, val |-> <<>>]
Filled(v) == [set |-> TRUE, val |-> v]

\* ntraj given as a number
ScalarCount(n) == [list |-> FALSE, counts |-> <<n>>]

\* mcsolve has not returned an Odedata object
NoOutput(status, averaged) ==
    [status |-> status, averaged |-> averaged, data |-> <<>>, error |-> "",
     ntraj |-> ScalarCount(0), e_ops_dict |-> FALSE, ntraj_out |-> 0]

\* a Python list with one entry per expectation operator, each holding x
OpList(cfg, x) == [op \in 0..(cfg.e_num - 1) |-> x]

\* mcsolve was left by the exception raised for an initial state that is no ket
Rejected ==
    [NoOutput("raised", FALSE) EXCEPT !.error = "Initial state must be a state vector."]

\* zeros((num_times), dtype=object) / zeros((1), dtype=object)
ZeroRow(cfg) ==
    IF cfg.steady_state_average THEN << [num |-> <<>>, den |-> 1] >>
    ELSE [k \in 1..NumTimes |-> 0]

\* the module's Odeconfig object before mcsolve has written to it
odeconfig_reset ==
    [ntraj |-> 0, num_cpus |-> 0, c_td |-> <<>>, c_num |-> 0, tflag |-> 0,
     c_const_inds |-> <<>>, c_td_inds |-> <<>>, e_num |-> 0,
     average_states |-> FALSE, steady_state_average |-> FALSE,
     average_expect |-> FALSE, norm_steps |-> 0, norm_tol |-> 0, stiff |-> {},
     psi0 |-> psi0(0), progress |-> 0, progress_max |-> 0, fail_k |-> 0]

\* options that keep average_states as the caller gave it
options_average_states_kept(opt) == opt.average_states

\* `if odeconfig.options.steady_state_average:
\*      odeconfig.options.average_states = True`
options_average_states(opt) ==
    IF opt.steady_state_average THEN TRUE ELSE opt.average_states

\* the configurations mcsolve is called with; kets that are not normalized are
\* run as single trajectories; fail_k is the output index at which zvode gives
\* up in a run without collapse operators (0: never), where norm_steps and
\* stiff are not read
Configs ==
  { cf \in
    { [ntraj |-> n, num_cpus |-> c, c_td |-> l, c_num |-> c_num_of(l),
       tflag |-> tflag_of(l), c_const_inds |-> c_const_inds_of(l),
       c_td_inds |-> c_td_inds_of(l),
       e_num |-> m.e_num,
       average_states |-> options_average_states(m),
       steady_state_average |-> m.steady_state_average,
       average_expect |-> m.average_expect,
       norm_steps |-> ns, norm_tol |-> NormTol, stiff |-> sf,
       psi0 |-> psi0(a), progress |-> 0, progress_max |-> n, fail_k |-> fk] :
      n \in 1..MaxTraj, c \in CpuChoices, l \in CollapseLists,
      m \in OutputModes, ns \in {1, MaxNormSteps}, sf \in StiffChoices,
      a \in PsiAttChoices, fk \in 0..(NumTimes - 1) } :
    /\ cf.psi0.att = 0 \/ cf.ntraj = 1
    /\ IF cf.c_num = 0 THEN cf.norm_steps = 1 /\ cf.stiff = {}
       ELSE cf.fail_k = 0 }

\* options.seeds is None
NoSeeds == [i \in {Null} |-> 0]

\* the seed arrays a caller passes for n trajectories (their length is not
\* checked against n)
SeedArrays(n) ==
    UNION { [0..(len - 1) -> SeedChoices] : len \in {l \in (n - 1)..n : l >= 1} }

\* an odeconfig that has been written before psi0.isket is tested
ConfigAtCheck_written(cur, cfg) == cfg
\* odeconfig at the test of psi0.isket (line 157): nothing has been written
ConfigAtCheck(cur, cfg) == cur

\* __init__ without collapse operators (lines 353-371): psi_out is one array
\* of num_times empty Qobj, or expect_out one array per operator with the
\* expectation value of psi0 as entry 0; the arrays of the other kind and the
\* collapse logs are None
NoCollapseAlloc(cfg) ==
    IF cfg.e_num = 0
    THEN [psi_out |-> [k \in 1..NumTimes |-> 0], expect_out |-> <<>>]
    ELSE [psi_out |-> <<>>,
          expect_out |-> OpList(cfg, [k \in 1..NumTimes |->
                                         IF k = 1 THEN psi0_expect(cfg.psi0) ELSE 0])]

\* H and c_ops are not followed: the run is drawn with its configuration
NoArgs == [H |-> <<>>, c_ops |-> <<>>]

\* the module is loaded; mcsolve is about to be called
Init ==
    /\ psi0_isket \in BOOLEAN
    /\ odeconfig = odeconfig_reset
    /\ seeds = NoSeeds
    /\ mc_pc = "call"
    /\ nt_cur = 0
    /\ count = 0
    /\ psi_out = <<>>
    /\ expect_out = <<>>
    /\ collapse_times_out = <<>>
    /\ which_op_out = <<>>
    /\ handler_alive = TRUE
    /\ heap = <<>>
    /\ task = <<>>
    /\ returned = <<>>
    /\ arrived = <<>>
    /\ output = NoOutput("none", FALSE)
    /\ mc_args = NoArgs
    /\ rhs_out = <<>>

\* mcsolve from its first line to `mc = _MC_class(odeconfig)`: the test of the
\* initial state, the configuration of odeconfig, and __init__, which
\* preallocates the output arrays
mcsolve_entry ==
    /\ mc_pc = "call"
    /\ \E cfg \in Configs : \E sds \in SeedArrays(cfg.ntraj) \cup {NoSeeds} :
          IF ~psi0_isket
          THEN /\ odeconfig' = ConfigAtCheck(odeconfig, cfg)
               /\ output' = Rejected
               /\ mc_pc' = "done"
               /\ UNCHANGED <<seeds, psi_out, expect_out, collapse_times_out,
                              which_op_out, heap, task, returned>>
          ELSE /\ odeconfig' = cfg
               /\ seeds' = sds
               /\ mc_pc' = "run"
               /\ psi_out' = IF cfg.c_num = 0 THEN NoCollapseAlloc(cfg).psi_out
                              ELSE [r \in 0..(cfg.ntraj - 1) |-> ZeroRow(cfg)]
               /\ expect_out' = IF cfg.c_num = 0 THEN NoCollapseAlloc(cfg).expect_out
                                 ELSE [r \in 0..(cfg.ntraj - 1) |-> NoRef]
               /\ collapse_times_out' =
                      IF cfg.c_num = 0 THEN <<>>
                      ELSE [r \in 0..(cfg.ntraj - 1) |-> Unset]
               /\ which_op_out' =
                      IF cfg.c_num = 0 THEN <<>>
                      ELSE [r \in 0..(cfg.ntraj - 1) |-> Unset]
               /\ heap' = [o \in 0..cfg.ntraj |-> <<>>]
               /\ task' = [nt \in 0..(cfg.ntraj - 1) |-> TaskQueued]
               /\ returned' = [nt \in 0..(cfg.ntraj - 1) |-> Unset]
               /\ UNCHANGED output
    /\ UNCHANGED <<psi0_isket, nt_cur, count, handler_alive, arrived>>
    /\ UNCHANGED <<mc_args, rhs_out>>

\* ------------------------------------------------------ _MC_class.run
\* run prepares mc_alg_out and the argument tuple and calls parallel, which
\* falls back to serial for one cpu or one trajectory and otherwise submits
\* every trajectory to the pool
\* a fallback that looks at the worker count only
serial_fallback_cpus_only(cpus, ntraj) == cpus = 1

\* parallel: `if self.cpus == 1 or self.odeconfig.ntraj == 1`
serial_fallback(cpus, ntraj) == cpus = 1 \/ ntraj = 1

\* a run without collapse operators that keeps the trajectory count
no_collapse_ntraj_kept(n) == n

\* run without collapse operators: `if self.odeconfig.ntraj != 1:
\* self.odeconfig.ntraj = 1`
no_collapse_ntraj(n) == 1

\* an integrator that never reports a failure
no_collapse_successful_always(cfg, k) == TRUE

\* ODE.successful() after ODE.integrate(tlist[k], step=0) in the run without
\* collapse operators
no_collapse_successful(cfg, k) == cfg.fail_k # k

\* the write for output time k: Qobj(ODE.y / dznrm2(ODE.y)) or the expectation
\* value in that state
NoCollapseWrite(cfg, out, y, k) ==
    [out EXCEPT ![k + 1] = IF cfg.e_num = 0 THEN psi_code(y, tlist(k))
                           ELSE cy_expect_psi(y, tlist(k))]

RECURSIVE no_collapse_loop(_, _, _, _)
\* `for k in range(1, num_times)` of _no_collapse_psi_out and
\* _no_collapse_expect_out from pass k on, the integrator standing at
\* (y, tlist[k-1]): the array written, and whether the loop ended without the
\* ValueError
no_collapse_loop(cfg, k, y, out) ==
    IF k >= NumTimes THEN [ok |-> TRUE, out |-> out]
    ELSE LET y1 == ode_integrate(cfg, y, tlist(k - 1), tlist(k))
         IN IF no_collapse_successful(cfg, k)
            THEN no_collapse_loop(cfg, k + 1, y1, NoCollapseWrite(cfg, out, y1, k))
            ELSE [ok |-> FALSE, out |-> out]

\* _no_collapse_psi_out / _no_collapse_expect_out: entry 0 is psi0 as given
\* (or its expectation value), then the loop
no_collapse_out(cfg) ==
    no_collapse_loop(cfg, 1, cfg.psi0,
        [k \in 1..NumTimes |->
            IF k = 1 THEN (IF cfg.e_num = 0 THEN psi0_code(cfg.psi0)
                           ELSE psi0_expect(cfg.psi0))
            ELSE 0])

\* mcsolve is left by the ValueError of the run without collapse operators
OdeError == [NoOutput("raised", FALSE) EXCEPT !.error = "Error in ODE solver"]

Run ==
    /\ mc_pc = "run"
    /\ IF odeconfig.c_num = 0
       THEN LET cfg == [odeconfig EXCEPT !.ntraj = no_collapse_ntraj(@)]
                res == no_collapse_out(cfg)
            IN /\ odeconfig' = cfg
               /\ IF cfg.e_num = 0
                  THEN psi_out' = res.out /\ UNCHANGED expect_out
                  ELSE expect_out' = OpList(cfg, res.out) /\ UNCHANGED psi_out
               /\ IF res.ok
                  THEN mc_pc' = "collect" /\ UNCHANGED output
                  ELSE mc_pc' = "done" /\ output' = OdeError
               /\ UNCHANGED <<seeds, heap>>
       ELSE /\ IF seeds = NoSeeds
               THEN seeds' \in [Trajs -> SeedChoices]
               ELSE UNCHANGED seeds
            /\ heap' = [heap EXCEPT ![0] = InitialBuffer(odeconfig)]
            /\ mc_pc' = IF serial_fallback(odeconfig.num_cpus, odeconfig.ntraj)
                        THEN "serial" ELSE "pool"
            /\ UNCHANGED <<odeconfig, psi_out, expect_out, output>>
    /\ UNCHANGED <<psi0_isket, nt_cur, count,
                   collapse_times_out, which_op_out, handler_alive, task,
                   returned, arrived>>
    /\ UNCHANGED <<mc_args, rhs_out>>

\* serial: _mc_alg_evolve(nt, args, odeconfig) is called with run's own args
SerialStart ==
    /\ mc_pc = "serial"
    /\ task[nt_cur].st = "queued"
    /\ task' = [task EXCEPT ![nt_cur] =
                    [TrajStart(odeconfig, seeds, nt_cur) EXCEPT !.buf = 0]]
    /\ UNCHANGED <<psi0_isket, odeconfig, seeds, mc_pc, nt_cur, count, psi_out, expect_out,
                   collapse_times_out, which_op_out, handler_alive, heap,
                   returned, arrived, output>>
    /\ UNCHANGED <<mc_args, rhs_out>>

Running == {nt \in Trajs : task[nt].st = "running"}

\* pool: a free worker takes the next task of the queue and unpickles its
\* own copy of the arguments
PoolStart(nt) ==
    /\ mc_pc = "pool"
    /\ task[nt].st = "queued"
    /\ \A m \in Trajs : m < nt => task[m].st # "queued"
    /\ Cardinality(Running) < odeconfig.num_cpus
    /\ task' = [task EXCEPT ![nt] =
                    [TrajStart(odeconfig, seeds, nt) EXCEPT !.buf = nt + 1]]
    /\ heap' = [heap EXCEPT ![nt + 1] = heap[0]]
    /\ UNCHANGED <<psi0_isket, odeconfig, seeds, mc_pc, nt_cur, count, psi_out, expect_out,
                   collapse_times_out, which_op_out, handler_alive,
                   returned, arrived, output>>
    /\ UNCHANGED <<mc_args, rhs_out>>

Integrate(nt) ==
    /\ task[nt].st = "running" /\ task[nt].pc = "step"
    /\ task' = [task EXCEPT ![nt] = IntegrateStep(odeconfig, @)]
    /\ UNCHANGED <<psi0_isket, odeconfig, seeds, mc_pc, nt_cur, count, psi_out, expect_out,
                   collapse_times_out, which_op_out, handler_alive, heap,
                   returned, arrived, output>>
    /\ UNCHANGED <<mc_args, rhs_out>>

Refine(nt) ==
    /\ task[nt].st = "running" /\ task[nt].pc = "search"
    /\ task' = [task EXCEPT ![nt] = RefineStep(odeconfig, @)]
    /\ UNCHANGED <<psi0_isket, odeconfig, seeds, mc_pc, nt_cur, count, psi_out, expect_out,
                   collapse_times_out, which_op_out, handler_alive, heap,
                   returned, arrived, output>>
    /\ UNCHANGED <<mc_args, rhs_out>>

Jump(nt) ==
    /\ task[nt].st = "running" /\ task[nt].pc = "jump"
    /\ task' = [task EXCEPT ![nt] = JumpStep(odeconfig, @)]
    /\ UNCHANGED <<psi0_isket, odeconfig, seeds, mc_pc, nt_cur, count, psi_out, expect_out,
                   collapse_times_out, which_op_out, handler_alive, heap,
                   returned, arrived, output>>
    /\ UNCHANGED <<mc_args, rhs_out>>

Sample(nt) ==
    /\ task[nt].st = "running" /\ task[nt].pc = "sample"
    /\ heap' = [heap EXCEPT ![task[nt].buf] = SampleWrite(odeconfig, @, task[nt])]
    /\ task' = [task EXCEPT ![nt] = SampleStep(@)]
    /\ UNCHANGED <<psi0_isket, odeconfig, seeds, mc_pc, nt_cur, count, psi_out, expect_out,
                   collapse_times_out, which_op_out, handler_alive,
                   returned, arrived, output>>
    /\ UNCHANGED <<mc_args, rhs_out>>

\* results[1] of a returned task
ResultValue(w) ==
    IF odeconfig.steady_state_average THEN w.result.val ELSE heap[w.result.ref]

\* the end of _mc_alg_evolve: the steady-state normalization and the return
Finish(nt) ==
    /\ task[nt].st = "running" /\ task[nt].pc = "finish"
    /\ LET res == IF odeconfig.steady_state_average
                  THEN [ref |-> Null, val |-> SteadyResult(heap[task[nt].buf])]
                  ELSE [ref |-> task[nt].buf, val |-> <<>>]
           w == [task[nt] EXCEPT !.pc = "done", !.st = "returned", !.result = res]
       IN /\ task' = [task EXCEPT ![nt] = w]
          /\ returned' = [returned EXCEPT ![nt] = Filled(ResultValue(w))]
    /\ UNCHANGED <<psi0_isket, odeconfig, seeds, mc_pc, nt_cur, count, psi_out, expect_out,
                   collapse_times_out, which_op_out, handler_alive, heap,
                   arrived, output>>
    /\ UNCHANGED <<mc_args, rhs_out>>

\* the value _mc_alg_evolve hands back: the tuple (nt, mc_alg_out,
\* collapse_times, which_oper) of line 954, or None when the except clause
\* (957-958) has printed the exception and the function ends without a return
mc_alg_return(nt, w) ==
    IF w.st \in {"failed", "lost"}
    THEN [is_none |-> TRUE, r |-> Null, err |-> ""]
    ELSE [is_none |-> FALSE, r |-> nt, err |-> ""]

\* who calls callback: serial for its current trajectory, the pool's
\* result handler for any result that has arrived
CallbackDue(nt) ==
    \/ mc_pc = "serial" /\ nt = nt_cur
    \/ mc_pc = "pool" /\ handler_alive

\* the loop of serial moves on
SerialNext ==
    IF mc_pc = "serial"
    THEN /\ nt_cur' = nt_cur + 1
         /\ mc_pc' = IF nt_cur + 1 < odeconfig.ntraj THEN "serial" ELSE "collect"
    ELSE UNCHANGED <<nt_cur, mc_pc>>

\* a callback that fills the slots in the order of arrival
callback_slot_by_arrival(nt) == count

\* r = results[0]: the slot callback writes is the trajectory index the task
\* returned
callback_slot(nt) == nt

\* the parts of odeconfig every trajectory reads: the operators and their
\* index partition, the initial state, the tolerances
SharedConfig(cfg) ==
    [c_td |-> cfg.c_td, c_num |-> cfg.c_num, tflag |-> cfg.tflag,
     c_const_inds |-> cfg.c_const_inds, c_td_inds |-> cfg.c_td_inds,
     psi0 |-> cfg.psi0, norm_tol |-> cfg.norm_tol, norm_steps |-> cfg.norm_steps]

\* a callback that keeps its count in odeconfig.norm_steps
callback_config_in_norm_steps(cfg, n) ==
    IF cfg.ntraj # 1 THEN [cfg EXCEPT !.norm_steps = n] ELSE cfg

\* odeconfig after callback: `if self.odeconfig.ntraj != 1:
\* self.odeconfig.progress_bar.update(self.count)`
callback_config(cfg, n) ==
    IF cfg.ntraj # 1 THEN [cfg EXCEPT !.progress = n] ELSE cfg

\* a callback that counts in steps of two
callback_count_step_two(c) == c + 2

\* self.count += self.step, with self.step = 1 as __init__ sets it
callback_count(c) == c + 1

\* _MC_class.callback(results) with the tuple of a returned trajectory
callback(nt) ==
    /\ task[nt].st = "returned"
    /\ CallbackDue(nt)
    /\ LET r == callback_slot(nt)
       IN /\ IF odeconfig.e_num = 0
             THEN /\ psi_out' = [psi_out EXCEPT ![r] = ResultValue(task[nt])]
                  /\ UNCHANGED expect_out
             ELSE /\ expect_out' = [expect_out EXCEPT ![r] = Ref(task[nt].result.ref)]
                  /\ UNCHANGED psi_out
          /\ collapse_times_out' =
                 [collapse_times_out EXCEPT ![r] = Filled(task[nt].collapse_times)]
          /\ which_op_out' =
                 [which_op_out EXCEPT ![r] = Filled(task[nt].which_oper)]
    /\ count' = callback_count(count)
    /\ odeconfig' = callback_config(odeconfig, callback_count(count))
    /\ task' = [task EXCEPT ![nt].st = "delivered"]
    /\ arrived' = Append(arrived, nt)
    /\ SerialNext
    /\ UNCHANGED <<psi0_isket, seeds, handler_alive, heap, returned, output>>
    /\ UNCHANGED <<mc_args, rhs_out>>

\* _MC_class.callback(None): `results[0]` raises TypeError before anything is
\* stored; in serial the exception leaves mcsolve, in the pool it ends the
\* result-handler thread
callback_none(nt) ==
    /\ task[nt].st = "failed"
    /\ mc_alg_return(nt, task[nt]).is_none
    /\ CallbackDue(nt)
    /\ task' = [task EXCEPT ![nt].st = "lost"]
    /\ IF mc_pc = "serial"
       THEN /\ mc_pc' = "done"
            /\ output' = NoOutput("raised", FALSE)
            /\ UNCHANGED handler_alive
       ELSE /\ handler_alive' = FALSE
            /\ UNCHANGED <<mc_pc, output>>
    /\ UNCHANGED <<psi0_isket, odeconfig, seeds, nt_cur, count, psi_out, expect_out,
                   collapse_times_out, which_op_out, heap, returned, arrived>>
    /\ UNCHANGED <<mc_args, rhs_out>>

\* pl.join() returns: every task has ended and the result handler has nothing
\* left to do (or has ended)
Join ==
    /\ mc_pc = "pool"
    /\ \A nt \in Trajs : task[nt].st \notin {"queued", "running"}
    /\ handler_alive => \A nt \in Trajs : task[nt].st \notin {"returned", "failed"}
    /\ mc_pc' = "collect"
    /\ UNCHANGED <<psi0_isket, odeconfig, seeds, nt_cur, count, psi_out, expect_out,
                   collapse_times_out, which_op_out, handler_alive, heap, task,
                   returned, arrived, output>>
    /\ UNCHANGED <<mc_args, rhs_out>>

\* KeyboardInterrupt.  serial does not catch it: it leaves mcsolve.  parallel
\* catches it around pl.join(), terminates the pool and returns normally
KeyboardInterrupt ==
    /\ mc_pc \in {"serial", "pool"}
    /\ task' = [nt \in Trajs |->
                   IF task[nt].st \in {"queued", "running", "returned", "failed"}
                   THEN TaskKilled ELSE task[nt]]
    /\ IF mc_pc = "serial"
       THEN /\ mc_pc' = "done"
            /\ output' = NoOutput("interrupted", FALSE)
       ELSE /\ mc_pc' = "collect"
            /\ UNCHANGED output
    /\ UNCHANGED <<psi0_isket, odeconfig, seeds, nt_cur, count, psi_out, expect_out,
                   collapse_times_out, which_op_out, handler_alive, heap,
                   returned, arrived>>
    /\ UNCHANGED <<mc_args, rhs_out>>

\* ------------------------------------------------- mcsolve, after run
RECURSIVE SumTraj(_, _, _)
\* sum over nt < n of the k-th expectation value stored for trajectory nt
SumTraj(n, k, deref) ==
    IF n = 0 THEN 0 ELSE deref[n - 1][k] + SumTraj(n - 1, k, deref)

RECURSIVE ConcatTraj(_, _)
\* the summands of sum over nt < n of rows[nt][1]
ConcatTraj(n, rows) ==
    IF n = 0 THEN <<>> ELSE ConcatTraj(n - 1, rows) \o rows[n - 1][1].num

\* _mc_dm_avg over the trajectories, for every column of psi_out
mc_dm_avg(cfg, rows) ==
    IF cfg.steady_state_average
    THEN << [num |-> ConcatTraj(cfg.ntraj, rows), den |-> NumTimes * cfg.ntraj] >>
    ELSE [k \in 1..NumTimes |->
             [num |-> [r \in 1..cfg.ntraj |-> rows[r - 1][k]], den |-> cfg.ntraj]]

\* the arrays (of the one operator) in the lists the slots of expect_out refer
\* to ([] when unfilled)
ExpectLists ==
    [nt \in Trajs |-> IF expect_out[nt] = NoRef THEN <<>> ELSE heap[expect_out[nt][1]]]

\* the increasing lists of checkpoint counts that end with n
CheckpointLists(n) == { <<m, n>> : m \in 1..(n - 1) } \cup { <<n>> }

\* the values of the argument ntraj for which odeconfig.ntraj is n
NtrajForms(n) ==
    {ScalarCount(n)} \cup { [list |-> TRUE, counts |-> c] : c \in CheckpointLists(n) }

\* the test `ntraj != 1` on the argument: a list is never equal to 1
NtrajIsNot1(na) == na.list \/ na.counts[1] # 1

\* a branch of mcsolve that averages the trajectories whatever the options say
AveragingBranch_always(cfg, na) == cfg.c_num > 0

\* the branch of mcsolve that averages is taken
AveragingBranch(cfg, na) ==
    /\ cfg.c_num > 0
    /\ IF cfg.e_num = 0 THEN cfg.average_states /\ NtrajIsNot1(na)
       ELSE cfg.average_expect

\* mean(..., axis=0) over the trajectories 0..num-1, per output time
ExpectMean(num) ==
    [k \in 1..NumTimes |-> [sum |-> SumTraj(num, k, ExpectLists), den |-> num]]

\* output.expect of the averaging branch, lines 270-287
ExpectAveraged(cfg, na) ==
    IF na.list
    THEN [c \in 0..(Len(na.counts) - 1) |-> OpList(cfg, ExpectMean(na.counts[c + 1]))]
    ELSE OpList(cfg, ExpectMean(na.counts[1]))

\* output.expect = mc.expect_out: per trajectory the list it returned
ExpectPerTraj(cfg) ==
    [nt \in Trajs |-> IF expect_out[nt] = NoRef THEN <<>>
                      ELSE OpList(cfg, ExpectLists[nt])]

\* {e: output.expect[n] for n, e in enumerate(e_ops_dict.keys())}
ExpectDict(cfg, expect) == [n \in 0..(cfg.e_num - 1) |-> expect[n]]

\* the Odedata object mcsolve builds from the arrays of _MC_class when ntraj
\* was given as na and e_ops as a dict (d) or a list; a slot that was never
\* filled holds 0 or [] and makes the mean raise
mcsolve_output(cfg, na, d) ==
    LET ret(avg, data) ==
            [NoOutput("returned", avg) EXCEPT !.data = data, !.ntraj = na,
                                              !.e_ops_dict = d,
                                              !.ntraj_out = cfg.ntraj]
        keyed(avg, expect) ==
            IF ~d THEN ret(avg, expect)
            ELSE IF \E n \in 0..(cfg.e_num - 1) : n \notin DOMAIN expect
                 THEN [NoOutput("raised", avg) EXCEPT !.error = "IndexError"]
                 ELSE ret(avg, ExpectDict(cfg, expect))
    IN IF cfg.e_num = 0
       THEN IF AveragingBranch(cfg, na)
            THEN IF \E r \in Trajs : psi_out[r] = ZeroRow(cfg)
                 THEN NoOutput("raised", TRUE)
                 ELSE ret(TRUE, mc_dm_avg(cfg, psi_out))
            ELSE ret(FALSE, psi_out)
       ELSE IF AveragingBranch(cfg, na)
            THEN IF \E nt \in Trajs : expect_out[nt] = NoRef
                 THEN NoOutput("raised", TRUE)
                 ELSE keyed(TRUE, ExpectAveraged(cfg, na))
            ELSE keyed(FALSE, IF cfg.c_num = 0 THEN expect_out
                              ELSE ExpectPerTraj(cfg))

\* mcsolve after mc.run(): the arguments ntraj and e_ops, of which only
\* odeconfig.ntraj and odeconfig.e_num were used so far, decide the output
CollectOutput ==
    /\ mc_pc = "collect"
    /\ \E na \in NtrajForms(odeconfig.progress_max),
          d \in {FALSE, odeconfig.e_num > 0} :
          output' = mcsolve_output(odeconfig, na, d)
    /\ mc_pc' = "done"
    /\ UNCHANGED <<psi0_isket, odeconfig, seeds, nt_cur, count, psi_out, expect_out,
                   collapse_times_out, which_op_out, handler_alive, heap, task,
                   returned, arrived>>
    /\ UNCHANGED <<mc_args, rhs_out>>

Next ==
    \/ mcsolve_entry
    \/ Run
    \/ SerialStart
    \/ \E nt \in Trajs : PoolStart(nt)
    \/ \E nt \in Trajs : Integrate(nt)
    \/ \E nt \in Trajs : Refine(nt)
    \/ \E nt \in Trajs : Jump(nt)
    \/ \E nt \in Trajs : Sample(nt)
    \/ \E nt \in Trajs : Finish(nt)
    \/ \E nt \in Trajs : callback(nt)
    \/ \E nt \in Trajs : callback_none(nt)
    \/ Join
    \/ KeyboardInterrupt
    \/ CollectOutput

Spec == Init /\ [][Next]_vars

\* ------------------------------------------- one trajectory, start to end
RECURSIVE Evolve(_, _, _)
\* _mc_alg_evolve run to its end from the locals w on the buffer buf: the
\* value of results[1], or <<"None">> when the function returns None
Evolve(cfg, w, buf) ==
    IF w.st = "failed" THEN <<"None">>
    ELSE IF w.pc = "step" THEN Evolve(cfg, IntegrateStep(cfg, w), buf)
    ELSE IF w.pc = "search" THEN Evolve(cfg, RefineStep(cfg, w), buf)
    ELSE IF w.pc = "jump" THEN Evolve(cfg, JumpStep(cfg, w), buf)
    ELSE IF w.pc = "sample"
         THEN Evolve(cfg, SampleStep(w), SampleWrite(cfg, buf, w))
    ELSE IF cfg.steady_state_average THEN SteadyResult(buf) ELSE buf

\* what a pool worker returns for trajectory nt: the task function applied to
\* its own unpickled copy of the arguments
PoolResult(nt) ==
    Evolve(odeconfig, TrajStart(odeconfig, seeds, nt), InitialBuffer(odeconfig))

\* what the output arrays hold for trajectory r
StoredResult(r) ==
    IF odeconfig.e_num = 0 THEN psi_out[r]
    ELSE IF expect_out[r] = NoRef THEN <<>> ELSE heap[expect_out[r][1]]

Delivered(nt) == task[nt].st = "delivered"
JustStarted(nt) ==
    /\ task[nt].st = "running" /\ task[nt].pc = "step"
    /\ task[nt].k = 1 /\ task[nt].t = tlist(0) /\ task[nt].jumps = <<>>

\* ------------------------------------------------------------ claims

\* C1: the output buffer of a trajectory is private and, once handed to the
\* orchestrator, never changes: the result stored for a trajectory stays the
\* one it returned whatever the other trajectories write, and every
\* trajectory starts on a buffer that holds only the initial sample.
C1_BufferPrivate ==
    /\ \A i \in Trajs : Delivered(i) => StoredResult(i) = returned[i].val
    /\ \A j \in Trajs : JustStarted(j) => heap[task[j].buf] = InitialBuffer(odeconfig)

\* C2: determinism across worker counts: for every trajectory index the
\* result stored by a run (sequential or pool) is the result the pool path
\* stores for the same seeds and configuration.
C2_SerialEqualsPool ==
    \A r \in Trajs : Delivered(r) => StoredResult(r) = PoolResult(r)

\* C3: results are merged by trajectory index, not by arrival order: in the
\* pool path, whatever the order of completion, once every callback has run
\* slot r of the state/expectation array, of the collapse-time array and of
\* the collapse-channel array holds what trajectory r returned, which is the
\* same for every completion order.
C3_MergedByIndex ==
    (mc_pc \in {"pool", "collect", "done"} /\ odeconfig.num_cpus > 1
        /\ \A nt \in Trajs : Delivered(nt))
    => \A r \in Trajs :
          /\ StoredResult(r) = returned[r].val
          /\ StoredResult(r) = PoolResult(r)
          /\ collapse_times_out[r] = Filled(task[r].collapse_times)
          /\ which_op_out[r] = Filled(task[r].which_oper)

\* C3 witness: two trajectories with different results have both reported,
\* the one with the higher index first.
C3_Witness ==
    /\ odeconfig.ntraj >= 2 /\ odeconfig.num_cpus > 1
    /\ \A nt \in Trajs : Delivered(nt)
    /\ arrived[1] > arrived[2]
    /\ returned[0].val # returned[1].val

Ended(nt) == task[nt].st \in {"returned", "delivered"}
Killed == \E nt \in Trajs : task[nt].st = "killed"
SomeFailed == \E nt \in Trajs : task[nt].st \in {"failed", "lost"}

\* C4: every jump is recorded in the collapse log: the collapse-time list and
\* the collapse-channel list a finished trajectory returns hold one entry per
\* jump performed, in order, the jump time and the selected channel.
C4_JumpsLogged ==
    \A nt \in Trajs : Ended(nt) =>
        /\ task[nt].collapse_times =
               [i \in 1..Len(task[nt].jumps) |-> task[nt].jumps[i].t]
        /\ task[nt].which_oper =
               [i \in 1..Len(task[nt].jumps) |-> task[nt].jumps[i].j]

RECURSIVE CumWeight(_, _, _, _)
\* sum of the decay weights of the collapse operators 0..i
CumWeight(cfg, i, y, t) ==
    IF i < 0 THEN 0 ELSE Weight(cfg, i, y, t) + CumWeight(cfg, i - 1, y, t)

\* the lowest operator index whose cumulative probability reaches r2
LowestIndexReaching(cfg, y, t, r2) ==
    LET tot == CumWeight(cfg, cfg.c_num - 1, y, t)
        hits == {i \in 0..(cfg.c_num - 1) : CumWeight(cfg, i, y, t) * R2Den >= r2 * tot}
    IN CHOOSE i \in hits : \A q \in hits : i <= q

\* C5: at every jump the cumulative sum runs over the channel index order and
\* the operator applied is the one of the lowest index whose cumulative
\* probability is >= r2.
C5_ChannelByIndex ==
    \A nt \in Trajs : \A i \in 1..Len(task[nt].jumps) :
        LET e == task[nt].jumps[i]
        IN e.j = LowestIndexReaching(odeconfig, e.y, e.t, e.r2)

\* C6: a jump is never applied at a guess that missed the convergence
\* criterion, a search that uses up norm_steps without meeting it ends the
\* trajectory with the 'Norm tolerance not reached' error.
C6_ToleranceFatal ==
    \A nt \in Trajs :
        /\ \A i \in 1..Len(task[nt].jumps) :
              WithinTol(odeconfig, task[nt].jumps[i].r1, dznrm2sq(task[nt].jumps[i].y))
        /\ (task[nt].pc = "jump" /\ task[nt].st = "running")
              => WithinTol(odeconfig, task[nt].rand_vals[1], dznrm2sq(task[nt].y))

\* C7: a failed trajectory is confined: without an interrupt, the run ends
\* with every other trajectory executed and its result stored in its slot.
C7_FailureConfined ==
    (mc_pc = "done" /\ odeconfig.ntraj >= 2 /\ SomeFailed /\ ~Killed
        /\ output.status # "interrupted")
    => /\ output.status = "returned"
       /\ \A nt \in Trajs :
             \/ task[nt].st \in {"failed", "lost"}
             \/ Delivered(nt) /\ StoredResult(nt) = returned[nt].val

\* C8: cancellation is a whole-run abort: after an interrupt that ended
\* trajectories in flight nothing is averaged and mcsolve returns no output.
C8_CancelAborts ==
    (mc_pc = "done" /\ (Killed \/ output.status = "interrupted"))
    => output.status # "returned" /\ ~output.averaged

\* C9: whenever the averaging step of mcsolve runs, the callback has been
\* executed for every trajectory index.
C9_AveragedWhenAllReported ==
    output.averaged => \A nt \in Trajs : Delivered(nt)

RECURSIVE AllSamples(_)
\* the density matrices of the trajectories 0..n-1 at every output time
AllSamples(n) ==
    IF n = 0 THEN <<>> ELSE AllSamples(n - 1) \o PoolResult(n - 1)[1].num

\* the density matrix a steady-state run hands out
SteadyOut == IF output.averaged THEN output.data[1] ELSE output.data[0][1]

\* C10: the density matrix of a steady-state run is the unweighted mean of
\* the density matrices of all trajectories at all output times, for every
\* worker count.
C10_SteadyStateMean ==
    (odeconfig.steady_state_average /\ output.status = "returned" /\ ~Killed
        /\ odeconfig.c_num > 0)
    => /\ SteadyOut.num = AllSamples(odeconfig.ntraj)
       /\ SteadyOut.den = NumTimes * odeconfig.ntraj
       /\ \A r \in Trajs : Len(psi_out[r][1].num) = NumTimes

Alive(nt) == task[nt].st \in {"running", "returned", "delivered"}

RECURSIVE SumReturned(_, _)
\* sum over nt < n of the k-th expectation value trajectory nt returned
SumReturned(n, k) ==
    IF n = 0 THEN 0 ELSE returned[n - 1].val[k] + SumReturned(n - 1, k)

\* the unweighted mean of what the trajectories 0..n-1 returned
MeanReturned(n) ==
    [k \in 1..NumTimes |-> [sum |-> SumReturned(n, k), den |-> n]]

\* C11: when the expectation values are averaged, each observable's value at
\* each output time is the unweighted mean over the trajectories of the
\* values they returned; for a checkpoint list there is one entry per
\* checkpoint, the mean over the trajectories 0..n-1 of that checkpoint.
C11_ExpectationMean ==
    (output.status = "returned" /\ output.averaged /\ odeconfig.e_num > 0
        /\ ~output.e_ops_dict)
    => IF output.ntraj.list
       THEN /\ DOMAIN output.data = 0..(Len(output.ntraj.counts) - 1)
            /\ \A c \in DOMAIN output.data : \A op \in 0..(odeconfig.e_num - 1) :
                  output.data[c][op] = MeanReturned(output.ntraj.counts[c + 1])
       ELSE \A op \in 0..(odeconfig.e_num - 1) :
                  output.data[op] = MeanReturned(odeconfig.ntraj)

\* C12: with one trajectory and averaging switched off the output is the
\* state sequence or expectation sequence exactly as the trajectory returned
\* it; no averaging step is applied.
C12_SingleTrajectoryRaw ==
    (output.status = "returned" /\ odeconfig.ntraj = 1 /\ odeconfig.c_num > 0
        /\ ~odeconfig.average_states
        /\ (odeconfig.e_num > 0 => ~odeconfig.average_expect))
    => /\ ~output.averaged
       /\ output.data[0] = IF odeconfig.e_num = 0 THEN returned[0].val
                           ELSE OpList(odeconfig, returned[0].val)

\* C12 witness: a single trajectory that jumped has been handed out as it was
\* returned, with expectation values requested and not averaged.
C12_Witness ==
    /\ output.status = "returned" /\ odeconfig.ntraj = 1
    /\ odeconfig.e_num > 0 /\ ~odeconfig.average_expect
    /\ Len(task[0].jumps) >= 1

\* C13: an initial state that is no ket is rejected with 'Initial state must
\* be a state vector.' before any trajectory is dispatched and with the
\* shared configuration as it was.
C13_NonKetRejected ==
    ~psi0_isket
    => /\ mc_pc = "call" \/ (mc_pc = "done" /\ output = Rejected)
       /\ odeconfig = odeconfig_reset
       /\ task = <<>> /\ seeds = NoSeeds /\ count = 0 /\ arrived = <<>>

\* C13 witness: mcsolve was called with a non-ket and has raised.
C13_Witness == ~psi0_isket /\ mc_pc = "done" /\ output.status = "raised"

\* C14: within a trajectory the jump times are strictly increasing and lie
\* within [tlist[0], tlist[-1]].
C14_JumpTimesIncreasing ==
    \A nt \in Trajs : \A i \in 1..Len(task[nt].jumps) :
        /\ tlist(0) <= task[nt].jumps[i].t
        /\ task[nt].jumps[i].t <= tlist(NumTimes - 1)
        /\ i > 1 => task[nt].jumps[i - 1].t < task[nt].jumps[i].t

\* C15: once the trajectories are dispatched every index 0..N-1 has its own
\* seed, and trajectory nt draws all its numbers from the generator seeded
\* with seeds[nt].
C15_OwnSeedAndStream ==
    (mc_pc \in {"serial", "pool", "collect", "done"} /\ odeconfig.c_num > 0)
    => \A nt \in Trajs :
          /\ nt \in DOMAIN seeds
          /\ Alive(nt) =>
                /\ task[nt].seed = seeds[nt]
                /\ task[nt].rand_vals = prng_rand(seeds[nt], task[nt].ndraw - 1)
                /\ \A i \in 1..Len(task[nt].jumps) :
                      task[nt].jumps[i].redraw = prng_rand(seeds[nt], i)

\* C16: with the expectation operators given as a dict, the output maps each
\* name to the data of the operator stored under it: its mean (scalar count),
\* its mean per checkpoint (checkpoint list), its values per trajectory (no
\* averaging).
C16_DictByName ==
    (output.status = "returned" /\ output.e_ops_dict
        /\ \A nt \in Trajs : Delivered(nt))
    => \A n \in 0..(odeconfig.e_num - 1) :
          output.data[n] =
             IF ~output.averaged THEN [nt \in Trajs |-> ExpectLists[nt]]
             ELSE IF output.ntraj.list
                  THEN [c \in 0..(Len(output.ntraj.counts) - 1) |->
                           ExpectMean(output.ntraj.counts[c + 1])]
                  ELSE ExpectMean(odeconfig.ntraj)

\* C17: after every jump the state has unit norm, the integrator restarts at
\* the jump time from the projected state and a fresh pair (r1, r2) is drawn;
\* the state has unit norm at the first output time as well.
C17_UnitNormAfterJump ==
    \A nt \in Trajs :
        /\ \A i \in 1..Len(task[nt].jumps) :
              LET e == task[nt].jumps[i]
              IN /\ dznrm2sq(e.post) = 0
                 /\ e.post = [ch |-> e.j, t0 |-> e.t, att |-> 0]
                 /\ e.redraw = prng_rand(task[nt].seed, i)
        /\ (task[nt].st = "running" /\ task[nt].jumps = <<>>
               /\ task[nt].t = tlist(0))
              => dznrm2sq(task[nt].y) = 0

\* C18: a trajectory records exactly one sample per output time, in the order
\* of k, sample 0 being the initial state and sample k >= 1 taken with the
\* integrator at tlist[k]; it returns only after the sample of the last
\* output time.
C18_OneSamplePerOutputTime ==
    \A nt \in Trajs : Alive(nt) =>
        LET w == task[nt]
        IN /\ w.samples = [i \in 1..(w.k - 1) |-> [k |-> i, t |-> tlist(i)]]
           /\ w.pc = "sample" => w.t = tlist(w.k)
           /\ Ended(nt) => Len(w.samples) = NumTimes - 1
           /\ (w.st = "running" /\ ~odeconfig.steady_state_average)
                 => heap[w.buf][1] = InitialBuffer(odeconfig)[1]

\* C18 witness: a trajectory that jumped has returned with all its samples.
C18_Witness ==
    \E nt \in Trajs :
        /\ Ended(nt) /\ Len(task[nt].samples) = NumTimes - 1
        /\ Len(task[nt].jumps) >= 1

\* C19: a step that would pass tlist[k] is redone from (t_prev, y_prev) up to
\* tlist[k] exactly, so the integrator time is <= tlist[k] at every norm test
\* and at every jump.
C19_OvershootRollback ==
    \A nt \in Trajs : task[nt].st = "running" =>
        LET w == task[nt]
        IN /\ w.pc \in {"step", "search", "jump", "sample"} => w.t <= tlist(w.k)
           /\ (w.pc = "search" /\ w.ii = 0)
                 => /\ w.y = ode_integrate(odeconfig, w.y_prev, w.t_prev, w.t)
                    /\ w.t = tlist(w.k) \/ w.t = w.t_prev + StepLen

\* C19 witness: a step was cut at the output time and the norm is tested.
C19_Witness ==
    \E nt \in Trajs :
        /\ task[nt].st = "running" /\ task[nt].pc \in {"search", "sample"}
        /\ task[nt].t = tlist(task[nt].k)
        /\ task[nt].t_prev < task[nt].t
        /\ task[nt].t_prev + StepLen > tlist(task[nt].k)

\* C20: a jump search is entered exactly when the squared norm after a step
\* is <= r1, with the pre-step values as lower and the post-step values as
\* upper bracket; at every iteration t_prev < t_guess <= t_final and
\* norm2_prev > r1 >= norm2_psi; a guess below r1 replaces the upper bracket,
\* any other guess that has not converged the lower one.
C20_BracketInvariant ==
    \A nt \in Trajs : task[nt].st = "running" =>
        LET w == task[nt]
            r1 == w.rand_vals[1]
            t_guess == t_guess_of(w.t_prev, w.norm2_prev, r1, w.norm2_psi, w.t_final)
        IN /\ (w.pc \in {"step", "sample"} /\ ~(w.jumps = <<>> /\ w.t = tlist(0)))
                 => ~NormLE(dznrm2sq(w.y), r1)
           /\ w.pc = "search" =>
                 /\ NormLT(r1, w.norm2_prev) /\ NormLE(w.norm2_psi, r1)
                 /\ w.t_prev < t_guess /\ t_guess <= w.t_final
           /\ (w.pc = "search" /\ w.ii = 0) =>
                 /\ w.t_final = w.t /\ w.norm2_psi = dznrm2sq(w.y)
                 /\ w.norm2_prev = dznrm2sq(w.y_prev)
                 /\ w.y = ode_integrate(odeconfig, w.y_prev, w.t_prev, w.t)
           /\ (w.pc = "search" /\ w.ii > 0) =>
                 IF NormLT(dznrm2sq(w.y), r1)
                 THEN w.t_final = w.t /\ w.norm2_psi = dznrm2sq(w.y)
                 ELSE /\ w.t_prev = w.t /\ w.y_prev = w.y
                      /\ w.norm2_prev = dznrm2sq(w.y)

\* C21: the jump search terminates: for each detected jump at most norm_steps
\* re-integrations from the lower bracket are made; while the search goes on
\* fewer than norm_steps were made, and when it is left at least one was made
\* and the guess has converged or norm_steps are used up.
C21_SearchBounded ==
    \A nt \in Trajs : task[nt].st = "running" =>
        LET w == task[nt]
        IN /\ w.ii <= odeconfig.norm_steps
           /\ w.pc = "search" => w.ii < odeconfig.norm_steps
           /\ w.pc = "jump" =>
                 /\ 1 <= w.ii
                 /\ \/ WithinTol(odeconfig, w.rand_vals[1], dznrm2sq(w.y))
                    \/ w.ii = odeconfig.norm_steps

\* C21 witness: a search has used all of its norm_steps > 1 re-integrations
\* and is left for the jump.
C21_Witness ==
    \E nt \in Trajs :
        /\ task[nt].st = "running" /\ task[nt].pc = "jump"
        /\ odeconfig.norm_steps > 1 /\ task[nt].ii = odeconfig.norm_steps

\* C22: a trajectory draws exactly two numbers when it starts and exactly two
\* after each jump, 2*(m+1) numbers for m jumps; the first of a pair is the
\* threshold r1 and the second the selector r2, and the pair used at a jump
\* is the pair drawn after the jump before it (at the start for the first).
C22_TwoDrawsPerJump ==
    \A nt \in Trajs : Alive(nt) =>
        LET w == task[nt]
        IN /\ 2 * w.ndraw = 2 * (Len(w.jumps) + 1)
           /\ w.rand_vals = prng_rand(w.seed, Len(w.jumps))
           /\ \A i \in 1..Len(w.jumps) :
                 /\ w.jumps[i].r1 = R1Draw(w.seed, i - 1)
                 /\ w.jumps[i].r2 = R2Draw(w.seed, i - 1)
                 /\ w.jumps[i].redraw = prng_rand(w.seed, i)

\* C22 witness: a trajectory has jumped twice.
C22_Witness == \E nt \in Trajs : Alive(nt) /\ Len(task[nt].jumps) >= 2

\* a trajectory whose call of _mc_alg_evolve has begun
Started(nt) == task[nt].st \in {"running", "returned", "failed", "delivered", "lost"}

\* C23: with one worker or one trajectory no pool is created and the
\* trajectories run one after another in the order of their index, on run's
\* own argument tuple, the callback of trajectory i being done before
\* trajectory i+1 starts.
C23_SequentialFallback ==
    (mc_pc # "call" /\ psi0_isket
        /\ (odeconfig.num_cpus = 1 \/ odeconfig.ntraj = 1))
    => /\ mc_pc # "pool"
       /\ \A nt \in Trajs :
             /\ Started(nt) => task[nt].buf = 0
             /\ Started(nt) => \A m \in 0..(nt - 1) : task[m].st = "delivered"
       /\ \A i \in 1..Len(arrived) : arrived[i] = i - 1
       /\ Cardinality({nt \in Trajs : task[nt].st \in {"running", "returned", "failed"}}) <= 1

\* C23 witness: with one worker and two trajectories, trajectory 1 runs after
\* the callback of trajectory 0.
C23_Witness ==
    /\ mc_pc = "serial" /\ odeconfig.num_cpus = 1 /\ odeconfig.ntraj >= 2
    /\ task[1].st = "running" /\ arrived = <<0>>

\* the run is over and was not cancelled
RunOver ==
    /\ psi0_isket /\ odeconfig.c_num > 0 /\ mc_pc \in {"collect", "done"}
    /\ \A nt \in Trajs : task[nt].st # "killed"

\* C24: every index 0..N-1 is dispatched exactly once per run, also after a
\* failure: when the run is over no index is left undispatched, a trajectory
\* that was dispatched is never queued or started again, and every output
\* slot is written by at most one callback.
C24_DispatchedExactlyOnce ==
    /\ [](RunOver => \A nt \in Trajs : task[nt].st # "queued")
    /\ [](\A i, j \in 1..Len(arrived) : arrived[i] = arrived[j] => i = j)
    /\ [][\A nt \in Trajs :
             /\ task[nt].st # "queued" => task'[nt].st # "queued"
             /\ task[nt].st \notin {"queued", "running"} => task'[nt].st # "running"]_vars

\* C25: a trajectory that fails reports a tagged error: the value delivered
\* for it names the index of the trajectory and the error.
C25_TaggedError ==
    \A nt \in Trajs : task[nt].st \in {"failed", "lost"} =>
        LET res == mc_alg_return(nt, task[nt])
        IN /\ ~res.is_none
           /\ res.r = nt
           /\ res.err = task[nt].err

\* C28: from the dispatch of the first trajectory to the completion of the
\* last, no step of a trajectory and no callback changes the operators, the
\* index partition, the initial state or the tolerances held in odeconfig.
C28_ConfigNotWritten ==
    [][(mc_pc = "serial" \/ mc_pc = "pool")
          => SharedConfig(odeconfig)' = SharedConfig(odeconfig)]_vars

\* C28 witness: a callback has written to the progress bar held in odeconfig
\* while another trajectory is running.
C28_Witness ==
    /\ mc_pc \in {"serial", "pool"} /\ odeconfig.progress >= 1
    /\ \E nt \in Trajs : task[nt].st = "running" /\ Len(task[nt].jumps) >= 1

\* the sequence a single evolution of psi0 without collapses gives: entry 0
\* from psi0 as given, entry k from the state integrated from tlist[0] to
\* tlist[k] and normalized
SingleEvolution(cfg) ==
    [k \in 1..NumTimes |->
        IF k = 1
        THEN (IF cfg.e_num = 0 THEN psi0_code(cfg.psi0) ELSE psi0_expect(cfg.psi0))
        ELSE LET y == ode_integrate(cfg, cfg.psi0, tlist(0), tlist(k - 1))
             IN IF cfg.e_num = 0 THEN psi_code(y, tlist(k - 1))
                ELSE cy_expect_psi(y, tlist(k - 1))]

\* C29: without collapse operators exactly one evolution is run whatever
\* count was requested: no trajectory task is started, no pool and no buffer
\* copy is made, no callback runs and no number is drawn; the trajectory count
\* is 1, also in the output, and the output is the state or expectation
\* sequence of that evolution, not averaged.
C29_NoCollapseSingleRun ==
    (psi0_isket /\ odeconfig.c_num = 0 /\ mc_pc \in {"collect", "done"})
    => /\ odeconfig.ntraj = 1
       /\ \A nt \in DOMAIN task : task[nt].st = "queued" /\ task[nt].ndraw = 0
       /\ \A o \in DOMAIN heap : heap[o] = <<>>
       /\ count = 0 /\ arrived = <<>> /\ handler_alive
       /\ (mc_pc = "done" /\ odeconfig.fail_k = 0) => output.status = "returned"
       /\ output.status = "returned" =>
             /\ output.ntraj_out = 1
             /\ ~output.averaged
             /\ output.data = IF odeconfig.e_num = 0 THEN SingleEvolution(odeconfig)
                               ELSE OpList(odeconfig, SingleEvolution(odeconfig))

\* C29 witness: a run without collapse operators for which several
\* trajectories, two workers and averaged states were requested has returned.
C29_Witness ==
    /\ odeconfig.c_num = 0 /\ output.status = "returned"
    /\ odeconfig.progress_max >= 2 /\ odeconfig.num_cpus = 2
    /\ odeconfig.e_num = 0 /\ odeconfig.average_states

\* C30: without collapse operators an integrator failure at an output time
\* leaves mcsolve as the exception 'Error in ODE solver' and no output object
\* is returned; with collapse operators an integrator failure ends inside the
\* trajectory task and never leaves mcsolve as that exception.
C30_NoCollapseFailureRaises ==
    /\ (psi0_isket /\ odeconfig.c_num = 0 /\ mc_pc \in {"collect", "done"})
       => IF odeconfig.fail_k # 0
          THEN mc_pc = "done" /\ output = OdeError
          ELSE output.status \in {"none", "returned"}
    /\ odeconfig.c_num > 0
       => /\ output.error \notin {"Error in ODE solver", "ZVODE failed!",
                                  "ZVODE failed after adjusting step size!"}
          /\ \A nt \in Trajs :
                task[nt].err \in {"ZVODE failed!",
                                  "ZVODE failed after adjusting step size!"}
                => task[nt].pc = "done" /\ task[nt].st \in {"failed", "lost"}

\* C30 witness: the integrator failed at the last output time of a run
\* without collapse operators and mcsolve has raised.
C30_Witness ==
    /\ odeconfig.c_num = 0 /\ odeconfig.fail_k = NumTimes - 1
    /\ mc_pc = "done" /\ output = OdeError

\* ======================================================================
\* Operator configuration (_mc_data_config) and the right-hand sides that
\* read it.  A Qobj is a linear combination of the operators of the call:
\* the term <<w, s, k>> is H term k (s = "H") or the rate operator
\* C_k^dag C_k (s = "n"), taken as it is (w = "c") or multiplied by its
\* coefficient at time t (w = "t": f_k(t) for H terms, |c_k(t)|^2 for rate
\* operators).  Complex numbers are kept doubled, <<a, b>> is (a + b i)/2.
\* ======================================================================
MaxCollapse == 3

CAdd(z, w) == <<z[1] + w[1], z[2] + w[2]>>
CSub(z, w) == <<z[1] - w[1], z[2] - w[2]>>
CMul(z, w) ==
    <<(z[1] * w[1] - z[2] * w[2]) \div 2, (z[1] * w[2] + z[2] * w[1]) \div 2>>
\* the scalars of the source: 0, 1, 0.5j, -1.0j, -0.5j, 0.5
CZero == <<0, 0>>
COne == <<2, 0>>
C05j == <<0, 1>>
CMinus1j == <<0, -2>>
CMinus05j == <<0, -1>>
C05 == <<1, 0>>

TermSet == {"c", "t"} \X {"H", "n"} \X (0..MaxCollapse)
QZero == [x \in TermSet |-> CZero]
QUnit(x) == [y \in TermSet |-> IF y = x THEN COne ELSE CZero]
QAdd(p, q) == [x \in TermSet |-> CAdd(p[x], q[x])]
QSub(p, q) == [x \in TermSet |-> CSub(p[x], q[x])]
QScale(z, q) == [x \in TermSet |-> CMul(z, q[x])]
\* coefficient(t) * q for an operator q of the call
QTimes(q) ==
    [x \in TermSet |-> IF x[1] = "t" THEN q[<<"c", x[2], x[3]>>] ELSE CZero]

RECURSIVE QSum(_)
\* np.sum / sum over a list of operators
QSum(qs) == IF qs = <<>> THEN QZero ELSE QAdd(Head(qs), QSum(Tail(qs)))

\* Python values: a Qobj, the int 0 (sum over no terms), an exception
PyQobj(q) == [tag |-> "qobj", q |-> q]
PyInt0 == [tag |-> "int", q |-> QZero]
PyRaise == [tag |-> "raise", q |-> QZero]

\* H[k] or H[k][0], and H itself when it is a Qobj
HTerm(k) == QUnit(<<"c", "H", k>>)
\* c_op.dag() * c_op for c_op = c_ops[k] or c_ops[k][0]
NOp(k) == QUnit(<<"c", "n", k>>)

\* a 0-based Python list from a sequence
PyList(seq) == [i \in 0..(Len(seq) - 1) |-> seq[i + 1]]
PyLen(l) == Cardinality(DOMAIN l)
\* the indices of l that hold v, increasing
IndsOf(l, v) == SeqOfSet({k \in DOMAIN l : l[k] = v})
\* arange(n)
arange(n) == [i \in 1..n |-> i - 1]
\* setdiff1d(a, b)
setdiff1d(a, b) ==
    SeqOfSet({a[i] : i \in DOMAIN a} \ {b[i] : i \in DOMAIN b})

\* the Hamiltonians of the calls: one Qobj, a list whose terms are a Qobj
\* ("const"), [Qobj, str] or [Qobj, function], or a function of time
HForms ==
    { [kind |-> "qobj", terms |-> PyList(<<>>)],
      [kind |-> "list", terms |-> PyList(<<"const", "str">>)],
      [kind |-> "list", terms |-> PyList(<<"str">>)],
      [kind |-> "list", terms |-> PyList(<<"const", "func">>)],
      [kind |-> "list", terms |-> PyList(<<"func">>)],
      [kind |-> "func", terms |-> PyList(<<>>)] }

\* the collapse lists of the calls: each entry a Qobj, [Qobj, str] or
\* [Qobj, function]; str and function coefficients are not mixed
COpLists ==
    { l \in UNION { [0..(n - 1) -> {"const", "str", "func"}] : n \in 0..MaxCollapse } :
        ~((\E k \in DOMAIN l : l[k] = "str") /\ (\E k \in DOMAIN l : l[k] = "func")) }

\* _ode_checks(H, c_ops, 'mc'): the time-dependence class and the indices of
\* the constant, function and string terms of H and of c_ops
ode_checks(H, c_ops) ==
    LET h_func == IndsOf(H.terms, "func")
        h_str == IndsOf(H.terms, "str")
        c_func == IndsOf(c_ops, "func")
        c_str == IndsOf(c_ops, "str")
        tt == IF H.kind = "func" THEN 3
              ELSE IF h_func = <<>> /\ h_str = <<>>
                   THEN IF c_func = <<>> /\ c_str = <<>> THEN 0
                        ELSE IF c_str # <<>> THEN 1 ELSE 2
              ELSE IF h_str # <<>>
                   THEN IF c_func = <<>> /\ c_str = <<>> THEN 10
                        ELSE IF c_str # <<>> THEN 11 ELSE Null
              ELSE IF c_func = <<>> /\ c_str = <<>> THEN 20
                   ELSE IF c_func # <<>> THEN 22 ELSE Null
    IN [time_type |-> tt,
        h_stuff |-> <<IndsOf(H.terms, "const"), h_func, h_str>>,
        c_stuff |-> <<IndsOf(c_ops, "const"), c_func, c_str>>]

\* the calls _ode_checks accepts
CallArgs ==
    { a \in [H : HForms, c_ops : COpLists] :
        ode_checks(a.H, a.c_ops).time_type # Null }

\* Odeconfig.soft_reset(): the operator data is emptied; tflag and cflag stay,
\* as _mc_data_config calls it (line 1009) after mcsolve has set them (218-224)
\* and then branches on them
soft_reset(cfg) ==
    [cfg EXCEPT !.c_num = 0, !.c_const_inds = <<>>, !.c_td_inds = <<>>,
                !.c_ops_data = <<>>, !.n_ops_data = <<>>, !.h_data = <<>>,
                !.h_td_inds = <<>>, !.h_td_data = <<>>, !.h_funcs = FALSE]

\* the Odeconfig object of the module before a call (h_data None is <<>>)
config_reset ==
    [tflag |-> 0, cflag |-> 0, c_num |-> 0, c_const_inds |-> <<>>,
     c_td_inds |-> <<>>, c_ops_data |-> <<>>, n_ops_data |-> <<>>,
     h_data |-> <<>>, h_td_inds |-> <<>>, h_td_data |-> <<>>, h_funcs |-> FALSE]

\* v - 0.5j * (c_ops[k].dag() * c_ops[k]): a list has no dag()
fold_one(v, c_ops, k) ==
    IF v.tag = "raise" \/ c_ops[k] # "const" THEN PyRaise
    ELSE PyQobj(QSub(v.q, QScale(C05j, NOp(k))))

RECURSIVE fold_const(_, _, _)
\* for k in inds: H -= 0.5j * (c_ops[k].dag() * c_ops[k])
fold_const(v, c_ops, inds) ==
    IF inds = <<>> THEN v
    ELSE fold_const(fold_one(v, c_ops, Head(inds)), c_ops, Tail(inds))

\* sum(H[k] for k in H_const_inds): the int 0 when there is no constant term
sum_const(H_const_inds) ==
    IF H_const_inds = <<>> THEN PyInt0
    ELSE PyQobj(QSum([i \in DOMAIN H_const_inds |-> HTerm(H_const_inds[i])]))

\* -1.0j * H.data.data (after H.tidyup): an int has neither
h_data_of(v) ==
    IF v.tag = "qobj" THEN [ok |-> TRUE, d |-> QScale(CMinus1j, v.q)]
    ELSE [ok |-> FALSE, d |-> QZero]

\* the collapse part of _mc_data_config (lines 1029-1049): one entry of
\* c_ops_data and one of n_ops_data per operator, appended in list order
collapse_data(c_ops, cfg) ==
    IF PyLen(c_ops) > 0
    THEN [cfg EXCEPT !.c_num = PyLen(c_ops),
                     !.c_ops_data = [i \in 1..PyLen(c_ops) |-> i - 1],
                     !.n_ops_data = [i \in 1..PyLen(c_ops) |-> NOp(i - 1)]]
    ELSE cfg

\* the index sets without the set difference
c_inds_no_setdiff(cfg, td) == [const |-> arange(cfg.c_num), td |-> td]
\* C_td_inds = array(c_stuff[.]); C_const_inds = setdiff1d(C_inds, C_td_inds)
c_inds(cfg, td) == [const |-> setdiff1d(arange(cfg.c_num), td), td |-> td]

\* the result of a branch: the exception leaves cfg as it was written so far
Done(ok, cfg) == [ok |-> ok, cfg |-> cfg]

\* tflag == 0 (lines 1055-1067)
config_constant(H, c_ops, cfg) ==
    LET c1 == IF cfg.cflag = 1
              THEN [cfg EXCEPT !.c_const_inds = arange(PyLen(c_ops))] ELSE cfg
        Hc == IF cfg.cflag = 1
              THEN fold_const(PyQobj(HTerm(0)), c_ops, arange(PyLen(c_ops)))
              ELSE PyQobj(HTerm(0))
        hd == h_data_of(Hc)
    IN IF hd.ok THEN Done(TRUE, [c1 EXCEPT !.h_data = <<hd.d>>])
       ELSE Done(FALSE, c1)

\* tflag == 1 (lines 1079-1109): constant H, string-type collapse operators
config_str_c(H, c_ops, c_stuff, cfg) ==
    LET ci == c_inds(cfg, c_stuff[3])
        c1 == [cfg EXCEPT !.c_const_inds = ci.const, !.c_td_inds = ci.td]
        Hc == fold_const(PyQobj(HTerm(0)), c_ops, ci.const)
        hd == h_data_of(Hc)
    IN IF hd.ok
       THEN Done(TRUE, [c1 EXCEPT !.h_data =
               <<hd.d>> \o [i \in DOMAIN ci.td |->
                               QScale(CMinus1j, QScale(CMinus05j, NOp(ci.td[i])))]])
       ELSE Done(FALSE, c1)

\* tflag in (10, 11) (lines 1115-1175): string-type Hamiltonian
config_str_h(H, c_ops, h_stuff, c_stuff, cfg) ==
    LET H_td_inds == h_stuff[3]
        H_const_inds == setdiff1d(arange(PyLen(H.terms)), H_td_inds)
        c0 == [cfg EXCEPT !.h_td_inds = [i \in 1..Len(H_td_inds) |-> i]]
        ci == IF cfg.c_num > 0 /\ cfg.tflag # 10 THEN c_inds(cfg, c_stuff[3])
              ELSE [const |-> arange(cfg.c_num), td |-> <<>>]
        c1 == [c0 EXCEPT !.c_const_inds = ci.const, !.c_td_inds = ci.td]
        H0 == fold_const(sum_const(H_const_inds), c_ops, ci.const)
        hd == h_data_of(H0)
    IN IF hd.ok
       THEN Done(TRUE, [c1 EXCEPT !.h_data =
               <<hd.d>>
               \o [i \in DOMAIN H_td_inds |-> QScale(CMinus1j, HTerm(H_td_inds[i]))]
               \o [i \in DOMAIN ci.td |->
                      QScale(CMinus1j, QScale(CMinus05j, cfg.n_ops_data[ci.td[i] + 1]))]])
       ELSE Done(FALSE, c1)

\* tflag in (2, 20, 22) (lines 1223-1276): list-function time-dependence
config_func_list(H, c_ops, h_stuff, c_stuff, cfg) ==
    LET H_td_inds == IF cfg.tflag = 2 THEN <<>> ELSE h_stuff[2]
        H_const_inds == setdiff1d(arange(PyLen(H.terms)), H_td_inds)
        c0 == IF cfg.tflag = 2 THEN cfg
              ELSE [cfg EXCEPT !.h_funcs = TRUE,
                               !.h_td_inds = arange(Len(H_td_inds))]
        Hc0 == IF cfg.tflag = 2 THEN PyQobj(HTerm(0)) ELSE sum_const(H_const_inds)
        ci == c_inds(cfg, c_stuff[2])
        c1 == [c0 EXCEPT !.c_const_inds = ci.const, !.c_td_inds = ci.td]
        Hc == fold_const(Hc0, c_ops, ci.const)
        hd == h_data_of(Hc)
    IN IF hd.ok
       THEN Done(TRUE, [c1 EXCEPT !.h_data = <<hd.d>>,
                                  !.h_td_data = [i \in DOMAIN H_td_inds |->
                                      QScale(CMinus1j, HTerm(H_td_inds[i]))]])
       ELSE Done(FALSE, c1)

\* tflag == 3 (lines 1281-1297): the Hamiltonian is a function
config_func_h(H, c_ops, cfg) ==
    LET ci == [const |-> arange(cfg.c_num), td |-> <<>>]
        c1 == [cfg EXCEPT !.h_funcs = TRUE,
                          !.c_const_inds = ci.const, !.c_td_inds = ci.td]
        Hc == fold_const(PyInt0, c_ops, ci.const)
        hd == h_data_of(Hc)
    IN IF Len(ci.const) = 0 THEN Done(TRUE, c1)
       ELSE IF hd.ok THEN Done(TRUE, [c1 EXCEPT !.h_data = <<hd.d>>])
       ELSE Done(FALSE, c1)

\* _mc_data_config(H, psi0, h_stuff, c_ops, c_stuff, ...)
mc_data_config(H, c_ops, h_stuff, c_stuff, cfg) ==
    LET c1 == collapse_data(c_ops, soft_reset(cfg))
    IN IF c1.tflag = 0 THEN config_constant(H, c_ops, c1)
       ELSE IF c1.tflag = 1 THEN config_str_c(H, c_ops, c_stuff, c1)
       ELSE IF c1.tflag \in {10, 11} THEN config_str_h(H, c_ops, h_stuff, c_stuff, c1)
       ELSE IF c1.tflag \in {2, 20, 22}
            THEN config_func_list(H, c_ops, h_stuff, c_stuff, c1)
       ELSE config_func_h(H, c_ops, c1)

\* cy_ode_rhs(t, psi, h_data, h_ind, h_ptr): the constant generator term
cy_ode_rhs(cfg) == cfg.h_data[1]

\* sum over j in c_td_inds of |c_funcs[j](t)|^2 * n_ops[j]
col_func_terms(cfg) ==
    QSum([i \in DOMAIN cfg.c_td_inds |->
             QTimes(cfg.n_ops_data[cfg.c_td_inds[i] + 1])])

\* _cRHStd: constant Hamiltonian, function-type collapse operators
cRHStd(cfg) == QSub(cy_ode_rhs(cfg), QScale(C05, col_func_terms(cfg)))

\* _tdRHStd: list-function Hamiltonian
tdRHStd(cfg) ==
    LET const_term == cfg.h_data[1]
        h_func_term == QSum([i \in DOMAIN cfg.h_td_inds |->
                                QTimes(cfg.h_td_data[cfg.h_td_inds[i] + 1])])
    IN QSub(QSub(const_term, h_func_term), QScale(C05, col_func_terms(cfg)))

\* _pyRHSc: function Hamiltonian
pyRHSc(cfg) ==
    LET h_func_term == QScale(CMinus1j, QUnit(<<"t", "H", 0>>))
        const_col_term == IF Len(cfg.c_const_inds) > 0 THEN cfg.h_data[1] ELSE QZero
    IN QAdd(h_func_term, const_col_term)

\* the classes whose right-hand side is a function of this file (the string
\* classes run generated code)
PyRhsFlags == {0, 2, 3, 20, 22}

\* the right-hand side the integrator is given for odeconfig.tflag
rhs(cfg) ==
    IF cfg.tflag = 2 THEN cRHStd(cfg)
    ELSE IF cfg.tflag \in {20, 22} THEN tdRHStd(cfg)
    ELSE IF cfg.tflag = 3 THEN pyRHSc(cfg)
    ELSE cy_ode_rhs(cfg)

\* mcsolve was left by an exception raised in _mc_data_config
ConfigError == [NoOutput("raised", FALSE) EXCEPT !.error = "AttributeError"]

\* mcsolve is about to be called with H and c_ops
InitConfig ==
    /\ mc_args \in CallArgs
    /\ odeconfig = config_reset
    /\ psi0_isket = TRUE
    /\ seeds = NoSeeds
    /\ mc_pc = "call"
    /\ nt_cur = 0
    /\ count = 0
    /\ psi_out = <<>>
    /\ expect_out = <<>>
    /\ collapse_times_out = <<>>
    /\ which_op_out = <<>>
    /\ handler_alive = TRUE
    /\ heap = <<>>
    /\ task = <<>>
    /\ returned = <<>>
    /\ arrived = <<>>
    /\ output = NoOutput("none", FALSE)
    /\ rhs_out = <<>>

\* mcsolve, lines 211-228: soft_reset, _ode_checks, tflag and cflag, and
\* _mc_data_config
mcsolve_config ==
    /\ mc_pc = "call"
    /\ LET chk == ode_checks(mc_args.H, mc_args.c_ops)
           c_terms == Len(chk.c_stuff[1]) + Len(chk.c_stuff[2]) + Len(chk.c_stuff[3])
           c0 == [soft_reset(odeconfig) EXCEPT
                     !.tflag = chk.time_type,
                     !.cflag = IF c_terms > 0 THEN 1 ELSE 0]
           res == mc_data_config(mc_args.H, mc_args.c_ops, chk.h_stuff,
                                 chk.c_stuff, c0)
       IN /\ odeconfig' = res.cfg
          /\ IF res.ok THEN mc_pc' = "configured" /\ UNCHANGED output
             ELSE mc_pc' = "done" /\ output' = ConfigError
    /\ UNCHANGED <<psi0_isket, seeds, nt_cur, count, psi_out, expect_out,
                   collapse_times_out, which_op_out, handler_alive, heap, task,
                   returned, arrived, mc_args, rhs_out>>

\* the integrator calls the right-hand side
rhs_call ==
    /\ mc_pc = "configured"
    /\ odeconfig.tflag \in PyRhsFlags
    /\ rhs_out' = <<rhs(odeconfig)>>
    /\ mc_pc' = "integrating"
    /\ UNCHANGED <<psi0_isket, odeconfig, seeds, nt_cur, count, psi_out, expect_out,
                   collapse_times_out, which_op_out, handler_alive, heap, task,
                   returned, arrived, output, mc_args>>

NextConfig ==
    \/ mcsolve_config
    \/ rhs_call

SpecConfig == InitConfig /\ [][NextConfig]_vars

\* the set of the entries of an index array
IndSet(a) == {a[i] : i \in DOMAIN a}

\* _mc_data_config has run, to its end or to an exception
ConfigRan == mc_pc \in {"configured", "integrating", "done"}
\* _mc_data_config has run to its end
Configured == mc_pc \in {"configured", "integrating"}

\* C26: after _mc_data_config, for every time-dependence class, the stored
\* constant-rate and time-dependent-rate index sets are disjoint, without
\* repetition, and their union is {0..c_num-1}; c_num is the number of
\* collapse operators, and for every index k the rate operator stored at k is
\* C_k^dag C_k of the collapse operator stored at k; when the configuration
\* completes the time-dependent set holds the operators given with a
\* coefficient.
C26_OperatorPartition ==
    ConfigRan =>
       LET cs == IndSet(odeconfig.c_const_inds)
           ts == IndSet(odeconfig.c_td_inds)
       IN /\ cs \cap ts = {}
          /\ cs \cup ts = 0..(odeconfig.c_num - 1)
          /\ Cardinality(cs) = Len(odeconfig.c_const_inds)
          /\ Cardinality(ts) = Len(odeconfig.c_td_inds)
          /\ odeconfig.c_num = PyLen(mc_args.c_ops)
          /\ Len(odeconfig.n_ops_data) = odeconfig.c_num
          /\ Len(odeconfig.c_ops_data) = odeconfig.c_num
          /\ \A k \in 0..(odeconfig.c_num - 1) :
                /\ odeconfig.c_ops_data[k + 1] = k
                /\ odeconfig.n_ops_data[k + 1] = NOp(k)
          /\ Configured =>
                ts = {k \in DOMAIN mc_args.c_ops : mc_args.c_ops[k] # "const"}

\* C26 witness: a configuration with a string-type Hamiltonian and three
\* collapse operators has completed with both index sets non-empty.
C26_Witness ==
    /\ Configured /\ odeconfig.tflag = 11 /\ odeconfig.c_num = MaxCollapse
    /\ odeconfig.c_const_inds # <<>> /\ odeconfig.c_td_inds # <<>>

\* the Hamiltonian of the call at time t
Hamiltonian(H) ==
    IF H.kind = "qobj" THEN HTerm(0)
    ELSE IF H.kind = "func" THEN QUnit(<<"t", "H", 0>>)
    ELSE QSum([i \in 1..PyLen(H.terms) |->
                  IF H.terms[i - 1] = "const" THEN HTerm(i - 1)
                  ELSE QTimes(HTerm(i - 1))])

\* the constant part of the Hamiltonian of the call
HamiltonianConst(H) ==
    IF H.kind = "qobj" THEN HTerm(0)
    ELSE IF H.kind = "func" THEN QZero
    ELSE QSum([i \in 1..PyLen(H.terms) |->
                  IF H.terms[i - 1] = "const" THEN HTerm(i - 1) ELSE QZero])

\* the sum of C_k^dag C_k over the collapse operators given without coefficient
ConstRates(c_ops) ==
    QSum([i \in 1..PyLen(c_ops) |->
             IF c_ops[i - 1] = "const" THEN NOp(i - 1) ELSE QZero])

\* the constant generator term as the right-hand sides read it: h_data, or
\* its first entry for the string classes; nothing when h_data is None
ConstTerm(cfg) == IF cfg.h_data = <<>> THEN QZero ELSE cfg.h_data[1]

\* C27: when the configuration completes, the constant generator term is
\* -i times (the constant part of H minus (i/2) C_k^dag C_k summed once over
\* exactly the constant-rate operators k), with no contribution of a
\* time-dependent-rate operator; and without collapse operators the
\* right-hand side is -i times the Hamiltonian.
C27_GeneratorConstruction ==
    /\ Configured =>
          ConstTerm(odeconfig) =
             QScale(CMinus1j, QSub(HamiltonianConst(mc_args.H),
                                   QScale(C05j, ConstRates(mc_args.c_ops))))
    /\ (mc_pc = "integrating" /\ odeconfig.c_num = 0) =>
          rhs_out[1] = QScale(CMinus1j, Hamiltonian(mc_args.H))

\* ======================================================================
\* Termination of a run
\* ======================================================================
\* the steps of a run in which no KeyboardInterrupt arrives
NextNoInterrupt ==
    \/ mcsolve_entry
    \/ Run
    \/ SerialStart
    \/ \E nt \in Trajs : PoolStart(nt)
    \/ \E nt \in Trajs : Integrate(nt)
    \/ \E nt \in Trajs : Refine(nt)
    \/ \E nt \in Trajs : Jump(nt)
    \/ \E nt \in Trajs : Sample(nt)
    \/ \E nt \in Trajs : Finish(nt)
    \/ \E nt \in Trajs : callback(nt)
    \/ \E nt \in Trajs : callback_none(nt)
    \/ Join
    \/ CollectOutput

\* mcsolve, its workers and the result handler keep running: a step that can
\* be taken is taken
SpecLive == Init /\ [][NextNoInterrupt]_vars /\ WF_vars(NextNoInterrupt)

\* the integrator succeeds on every state of the run
IntegratorSucceeds == odeconfig.stiff = {} /\ odeconfig.fail_k = 0

\* C31: when no integrator call fails and no interrupt occurs, a run with
\* collapse operators that has been started eventually has every trajectory
\* at its end and has returned, with the counter of completed trajectories
\* equal to ntraj.
C31_RunCompletes ==
    (psi0_isket /\ mc_pc = "run" /\ odeconfig.c_num > 0 /\ IntegratorSucceeds)
    ~> (/\ mc_pc = "done" /\ output.status = "returned"
        /\ \A nt \in Trajs : task[nt].pc = "done"
        /\ count = odeconfig.ntraj)

\* the slots of the per-trajectory output arrays a callback has filled
FilledSlots ==
    {r \in DOMAIN collapse_times_out :
        /\ collapse_times_out[r].set /\ which_op_out[r].set
        /\ odeconfig.e_num > 0 => expect_out[r] # NoRef}
\* the slots a callback has touched
TouchedSlots ==
    {r \in DOMAIN collapse_times_out :
        \/ collapse_times_out[r].set \/ which_op_out[r].set
        \/ odeconfig.e_num > 0 /\ expect_out[r] # NoRef}

\* C32: the counter of completed trajectories is 0 until the first callback,
\* never exceeds ntraj, and always equals the number of output slots that
\* have been filled and the number of callbacks that have stored a result;
\* every step leaves it as it is or is a callback that stores one result and
\* raises it by exactly 1.
C32_CounterMatchesSlots ==
    /\ [](/\ count = Cardinality(FilledSlots)
          /\ FilledSlots = TouchedSlots
          /\ count = Len(arrived)
          /\ count >= 0 /\ count <= odeconfig.ntraj
          /\ mc_pc \in {"call", "run"} => count = 0)
    /\ [][\/ count' = count /\ arrived' = arrived
          \/ /\ count' = count + 1
             /\ \E nt \in Trajs : /\ task[nt].st = "returned"
                                   /\ task'[nt].st = "delivered"
                                   /\ arrived' = Append(arrived, nt)]_vars

\* C32 witness: in a pool run of two trajectories one callback has run, the
\* counter stands at 1 and the other trajectory is still under way.
C32_Witness ==
    /\ mc_pc = "pool" /\ odeconfig.ntraj = 2 /\ count = 1
    /\ \E nt \in Trajs : task[nt].st = "running"

\* the length of the state buffer of every trajectory that has returned one,
\* and of every slot of psi_out a callback has filled
StateBufferLengths ==
    {Len(returned[nt].val) : nt \in {n \in DOMAIN returned : returned[n].set}}
      \cup {Len(psi_out[r]) : r \in FilledSlots}

\* C33: once mcsolve has read its options, steady_state_average implies
\* average_states; in a run with collapse operators and no expectation
\* operators every trajectory then returns a state buffer of one element, and
\* of one element per output time without steady-state averaging.
C33_SteadyStateForcesAverage ==
    (psi0_isket /\ mc_pc # "call") =>
        /\ odeconfig.steady_state_average => odeconfig.average_states
        /\ (odeconfig.c_num > 0 /\ odeconfig.e_num = 0) =>
               StateBufferLengths \subseteq
                   {IF odeconfig.steady_state_average THEN 1 ELSE NumTimes}

\* C33 witness: a run with steady-state averaging in which a trajectory has
\* returned its buffer and a callback has stored it.
C33_Witness ==
    /\ odeconfig.steady_state_average /\ odeconfig.average_states
    /\ odeconfig.c_num > 0 /\ odeconfig.e_num = 0
    /\ \E nt \in DOMAIN returned :
          /\ returned[nt].set /\ Len(returned[nt].val) = 1
          /\ nt \in FilledSlots /\ Len(psi_out[nt]) = 1
====
